---- MODULE Spec2Model ----
(***************************************************************************)
(* Model of the zodipy interface: Zodipy.__init__ and the phases of        *)
(* Zodipy.get_emission (src/zodipy/zodipy.py), with the input validators   *)
(* of src/zodipy/_decorators.py as operators.                              *)
(*                                                                         *)
(* Conventions.                                                            *)
(*  - An optional argument is a record [some, v]; some = FALSE is None.    *)
(*  - A frequency is [unit, value]: unit "Hz" carries a frequency in GHz   *)
(*    steps, unit "m" a wavelength in steps for which the speed of light   *)
(*    is SPEED_OF_LIGHT.                                                   *)
(*  - Positions are 3-vectors in steps of 0.01 AU.                         *)
(*  - Angles are integer grid steps.  Angle inputs are taken to be given   *)
(*    in the unit healpy reads them in (radians, or degrees with lonlat),  *)
(*    so that theta.to(u.deg) of line 183 leaves their values unchanged.   *)
(*  - theta and phi, when both given, have the same length.                *)
(***************************************************************************)
EXTENDS Integers, Sequences, FiniteSets, TLC

\* ------------------------------------------------------------------ bounds
\* Longest pixel / angle sequence passed by a caller.
MaxLen == 2

\* --------------------------------------------------------------- constants
\* zodipy.py:27
ADDITIONAL_SUPPORTED_OBSERVERS == {"semb-l2"}
\* zodipy.py:28, 0.009896235034000056 AU in steps of 0.01 AU
DISTANCE_FROM_EARTH_TO_L2 == 1
\* astropy u.spectral(): frequency = c / wavelength, in model steps
SPEED_OF_LIGHT == 12
\* (u.W / u.Hz / u.m ** 2 / u.sr).to(u.MJy / u.sr) multiplies by 10^20
MJY_EXP10 == 20

\* ----------------------------------------------------------- optional args
NoneSeq == [some |-> FALSE, v |-> <<>>]
NoneInt == [some |-> FALSE, v |-> 0]
NonePos == [some |-> FALSE, v |-> <<0, 0, 0>>]
Some(x) == [some |-> TRUE, v |-> x]

\* ------------------------------------------------------ external libraries
Ephemerides == {"builtin", "de432s"}

\* solar_system_ephemeris.bodies for the ephemeris that is currently set
Bodies(eph) ==
    IF eph = "de432s" THEN {"earth", "moon", "pluto"} ELSE {"earth", "moon"}

\* str.lower() on the observer names the model passes
lower(s) ==
    CASE s = "Earth" -> "earth"
      [] s = "SEMB-L2" -> "semb-l2"
      [] OTHER -> s

\* get_body(name, time) in heliocentric ecliptic cartesian AU steps, read
\* from the ephemeris that is set when the lookup happens
get_body(name, eph) ==
    LET shift == IF eph = "de432s" THEN 1 ELSE 0
    IN CASE lower(name) = "earth" -> <<100 + shift, 0, 0>>
         [] lower(name) = "moon"  -> <<100 + shift, 1, 0>>
         [] lower(name) = "pluto" -> <<0, 3900 + shift, 0>>
         [] OTHER -> <<0, 0, 0>>

\* hp.nside2npix
nside2npix(nside) == 12 * nside * nside

ValidPixel(p, nside) == p >= 0 /\ p < nside2npix(nside)

\* co-latitude and longitude steps of an angle pair as healpy reads it:
\* (theta, phi) = (co-latitude, longitude), or (longitude, latitude) with
\* lonlat, where latitude step 1 is the northern ring and 0 the equator
Colat(a, b, lonlat) == IF lonlat THEN 1 - b ELSE a
Lon(a, b, lonlat) == IF lonlat THEN a ELSE b

\* hp.ang2pix in the ring scheme: rings of 4 * nside pixels, two longitude
\* steps per pixel
ang2pix(nside, a, b, lonlat) ==
    4 * nside * Colat(a, b, lonlat) + (Lon(a, b, lonlat) \div 2)

\* hp.pix2vec / hp.ang2vec: a unit vector is named by an integer code;
\* pixel centres and angle directions have codes of their own
pix2vec(nside, p) == 100 + nside2npix(nside) + p
ang2vec(a, b, lonlat) == 200 + 10 * Colat(a, b, lonlat) + Lon(a, b, lonlat)

\* hp.rotator.Rotator(coord=[coord_out, "E"]) applied to a unit vector
Rotate(vec, coord) == IF coord = "G" THEN vec + 300 ELSE vec + 600

\* ------------------------------------------------------------------- numpy
RECURSIVE SortInts(_)
\* the elements of a set of integers in increasing order
SortInts(S) ==
    IF S = {} THEN <<>>
    ELSE LET m == CHOOSE x \in S : \A y \in S : x <= y
         IN <<m>> \o SortInts(S \ {m})

Range(s) == {s[i] : i \in DOMAIN s}

\* position of x in the sequence u (x occurs in u)
IndexOf(u, x) == CHOOSE j \in DOMAIN u : u[j] = x

CountOf(s, x) == Cardinality({i \in DOMAIN s : s[i] = x})

\* np.unique(pixels): the sorted distinct values
Unique(s) == SortInts(Range(s))

\* np.unique(..., return_counts=True)[1]
UniqueCounts(s) == [j \in DOMAIN Unique(s) |-> CountOf(s, Unique(s)[j])]

\* the inverse against the values in the order they first occur
UniqueInverse_firstSeen(s) ==
    [i \in DOMAIN s |-> Cardinality({s[k] : k \in 1..(CHOOSE m \in DOMAIN s : s[m] = s[i]
                                                       /\ \A n \in 1..(m - 1) : s[n] # s[i])})]

\* np.unique(..., return_inverse=True)[1]
UniqueInverse(s) == [i \in DOMAIN s |-> IndexOf(Unique(s), s[i])]

\* np.asarray([theta, phi]): column i is the pair <<theta[i], phi[i]>>
Columns(theta, phi) == [i \in DOMAIN theta |-> <<theta[i], phi[i]>>]

\* np.unique(..., axis=1) sorts the columns lexicographically; the key of a
\* column orders the pairs the same way
ColKey(c) == 16 * c[1] + c[2]
KeyCol(k) == <<k \div 16, k % 16>>
KeysOf(cols) == [i \in DOMAIN cols |-> ColKey(cols[i])]
UniqueColumns(cols) ==
    [j \in DOMAIN Unique(KeysOf(cols)) |-> KeyCol(Unique(KeysOf(cols))[j])]
UniqueColumnCounts(cols) == UniqueCounts(KeysOf(cols))
UniqueColumnInverse(cols) == UniqueInverse(KeysOf(cols))

\* np.linalg.norm of an axis-aligned vector
Abs(x) == IF x < 0 THEN -x ELSE x
Norm(v) == Abs(v[1]) + Abs(v[2]) + Abs(v[3])

\* ------------------------------------------------- model and its integrator
\* model.comps: the component labels in the order of the model's mapping
CompLabels == <<"cloud", "band1">>

\* the spectral grid the model's tables are given at, in GHz steps
SPECTRUM == <<2, 4>>
SpectrumMin == SPECTRUM[1]
SpectrumMax == SPECTRUM[Len(SPECTRUM)]

EMISSIVITIES == [cloud |-> <<2, 6>>, band1 |-> <<4, 8>>]
ALBEDOS == [cloud |-> <<1, 3>>, band1 |-> <<3, 1>>]
PHASE_COEFFS == <<5, 9>>

\* to_GHz taking a wavelength for a frequency
to_GHz_identity(freq) == freq.value

\* freq.to("GHz", equivalencies=u.spectral())
to_GHz(freq) ==
    IF freq.unit = "m" THEN SPEED_OF_LIGHT \div freq.value ELSE freq.value

InSpectrum(f) == SpectrumMin <= f /\ f <= SpectrumMax

\* linear interpolation of a table given at SPECTRUM
Interp(f, ys) ==
    ys[1] + ((f - SPECTRUM[1]) * (ys[2] - ys[1])) \div (SPECTRUM[2] - SPECTRUM[1])

\* interp_phase_coeffs: no extrapolation beyond the tabulated spectrum
interp_phase_coeffs(f) ==
    IF InSpectrum(f) THEN [err |-> "none", v |-> Interp(f, PHASE_COEFFS)]
    ELSE [err |-> "OutOfSpectralRange", v |-> 0]

\* interp_comp_spectral_params
interp_comp_spectral_params(f) ==
    IF InSpectrum(f)
    THEN [err |-> "none",
          v |-> [c \in Range(CompLabels) |->
                   [emissivity |-> Interp(f, EMISSIVITIES[c]),
                    albedo |-> Interp(f, ALBEDOS[c])]]]
    ELSE [err |-> "OutOfSpectralRange",
          v |-> [c \in Range(CompLabels) |-> [emissivity |-> 0, albedo |-> 0]]]

\* trapezoidal: the line-of-sight integral of one component along one unit
\* vector, a deterministic positive value that tells directions apart
trapezoidal(f, observer_pos, earth_pos, vec, emissivity, albedo, phase_coeffs) ==
    emissivity * vec + albedo + phase_coeffs + f
        + (Norm(observer_pos) % 7) + (Norm(earth_pos) % 5)

\* ------------------------------------------------------------- _decorators
\* validate_frequency: the wrapper's verdict on freq
validate_frequency(extrapolate, freq) ==
    IF ~extrapolate /\ ~(SpectrumMin <= to_GHz(freq) /\ to_GHz(freq) <= SpectrumMax)
    THEN "OutOfSpectralRange" ELSE "none"

\* np.max of a non-empty sequence
Max(s) == CHOOSE x \in Range(s) : \A y \in Range(s) : y <= x

\* validate_pixels: the wrapper's verdict on pixels
validate_pixels(pixels, nside) ==
    IF Max(pixels) > nside2npix(nside) THEN "InvalidPixel" ELSE "none"

\* ---------------------------------------------------------- get_emission
\* self.observers
observers(eph) == Bodies(eph) \cup ADDITIONAL_SUPPORTED_OBSERVERS

InvalidInputErrors ==
    {"MissingNsideForPixels", "MissingNsideForBinned", "MissingThetaOrPhi",
     "PixelsAndAngles", "LonlatWithoutAngles"}

\* Validate with the angle check of line 173 ahead of the nside checks
Validate_anglesFirst(a, eph) ==
    IF lower(a.obs) \notin observers(eph) THEN "UnsupportedObserver"
    ELSE IF a.theta.some # a.phi.some THEN "MissingThetaOrPhi"
    ELSE IF a.pixels.some /\ ~a.nside.some THEN "MissingNsideForPixels"
    ELSE IF a.binned /\ ~a.nside.some THEN "MissingNsideForBinned"
    ELSE IF a.pixels.some /\ (a.phi.some \/ a.theta.some) THEN "PixelsAndAngles"
    ELSE IF a.pixels.some /\ a.lonlat THEN "LonlatWithoutAngles"
    ELSE "none"

\* Validate without the observer check of line 153
Validate_noObserverCheck(a, eph) ==
    IF a.pixels.some /\ ~a.nside.some THEN "MissingNsideForPixels"
    ELSE IF a.binned /\ ~a.nside.some THEN "MissingNsideForBinned"
    ELSE IF a.theta.some # a.phi.some THEN "MissingThetaOrPhi"
    ELSE IF a.pixels.some /\ (a.phi.some \/ a.theta.some) THEN "PixelsAndAngles"
    ELSE IF a.pixels.some /\ a.lonlat THEN "LonlatWithoutAngles"
    ELSE "none"

\* Validate without the pixels-or-angles check of line 187
Validate_noExclusiveCheck(a, eph) ==
    IF lower(a.obs) \notin observers(eph) THEN "UnsupportedObserver"
    ELSE IF a.pixels.some /\ ~a.nside.some THEN "MissingNsideForPixels"
    ELSE IF a.binned /\ ~a.nside.some THEN "MissingNsideForBinned"
    ELSE IF a.theta.some # a.phi.some THEN "MissingThetaOrPhi"
    ELSE IF a.pixels.some /\ a.lonlat THEN "LonlatWithoutAngles"
    ELSE "none"

\* the checks of get_emission before it reads the ephemeris (lines 153-196),
\* in their order: the error raised, or "none"
Validate(a, eph) ==
    IF lower(a.obs) \notin observers(eph) THEN "UnsupportedObserver"
    ELSE IF a.pixels.some /\ ~a.nside.some THEN "MissingNsideForPixels"
    ELSE IF a.binned /\ ~a.nside.some THEN "MissingNsideForBinned"
    ELSE IF a.theta.some # a.phi.some THEN "MissingThetaOrPhi"
    ELSE IF a.pixels.some /\ (a.phi.some \/ a.theta.some) THEN "PixelsAndAngles"
    ELSE IF a.pixels.some /\ a.lonlat THEN "LonlatWithoutAngles"
    ELSE "none"

\* hp.ang2pix handed the unique angles in the wrong order
angle_pixels_swapped(nside, unique_angles, lonlat) ==
    [j \in DOMAIN unique_angles |->
        ang2pix(nside, unique_angles[j][2], unique_angles[j][1], lonlat)]

\* hp.ang2pix(nside, *unique_angles, lonlat=lonlat) of line 248
angle_pixels(nside, unique_angles, lonlat) ==
    [j \in DOMAIN unique_angles |->
        ang2pix(nside, unique_angles[j][1], unique_angles[j][2], lonlat)]

\* the observer position of lines 203-213 once Earth's position is known
L2Position(earth_pos) ==
    LET earth_length == Norm(earth_pos)
        semb_l2_length == earth_length + DISTANCE_FROM_EARTH_TO_L2
    IN [k \in 1..3 |-> (earth_pos[k] * semb_l2_length) \div earth_length]

RotateToEcliptic(vec, coord_out) ==
    IF coord_out # "E" THEN Rotate(vec, coord_out) ELSE vec

\* _rotated_pix2vec
rotated_pix2vec(pixels, nside, coord_out) ==
    [j \in DOMAIN pixels |-> RotateToEcliptic(pix2vec(nside, pixels[j]), coord_out)]

\* _rotated_ang2vec on the unique columns
rotated_ang2vec(cols, lonlat, coord_out) ==
    [j \in DOMAIN cols |->
        RotateToEcliptic(ang2vec(cols[j][1], cols[j][2], lonlat), coord_out)]

\* np.zeros((n,)) indexed from 0
Zeros(n) == [k \in 0..(n - 1) |-> 0]

\* numpy index into an array of length n: negative indices count from the end
InBounds(p, n) == p >= -n /\ p < n
Wrap(p, n) == IF p < 0 THEN p + n ELSE p

RECURSIVE ScatterFrom(_, _, _, _)
\* row[idxs] = vals from position j on: a repeated index keeps the last value
ScatterFrom(row, idxs, vals, j) ==
    IF j > Len(idxs) THEN row
    ELSE ScatterFrom([row EXCEPT ![Wrap(idxs[j], Cardinality(DOMAIN row))] = vals[j]],
                     idxs, vals, j + 1)

\* emission[idx, unique_pixels] = vals
Scatter(row, idxs, vals) == ScatterFrom(row, idxs, vals, 1)

\* integrated_comp_emission[indicies], indexed from 0 like the input
Gather(vals, indicies) == [k \in 0..(Len(indicies) - 1) |-> vals[indicies[k + 1]]]

\* row[unique_pixels] *= counts
ScaleByCounts(row, idxs, cnts) ==
    Scatter(row, idxs,
            [j \in DOMAIN idxs |->
                row[Wrap(idxs[j], Cardinality(DOMAIN row))] * cnts[j]])

RECURSIVE SumRows(_, _, _)
\* emission.sum(axis=0) at position k, over the rows from c on
SumRows(em, c, k) ==
    IF c > Len(em) THEN 0 ELSE em[c][k] + SumRows(em, c + 1, k)

\* the value get_emission returns: (emission << W/Hz/m^2/sr).to(MJy/sr),
\* summed over the components unless return_comps
Returned(em, return_comps) ==
    [unit |-> "MJy/sr", exp10 |-> MJY_EXP10, comps |-> return_comps,
     value |-> IF return_comps THEN em
               ELSE [k \in DOMAIN em[1] |-> SumRows(em, 1, k)]]

\* ------------------------------------------------------------ call inputs
Instances == <<"z1", "z2">>

ObsNames == {"earth", "Earth", "semb-l2", "pluto", "mars-orbiter"}
ObsPositions == {NonePos, Some(<<0, 150, 0>>)}
FreqInputs ==
    {[unit |-> "Hz", value |-> v] : v \in 1..5} \cup {[unit |-> "m", value |-> 6]}
PixelVals == {-1, 0, 11, 12}
AnglePairs == {<<0, 0>>, <<0, 1>>, <<1, 0>>}
CoordOuts == {"E", "G"}

SeqsUpTo(S, n) == UNION {[1..k -> S] : k \in 1..n}

\* calls that differ in which arguments are present
PresenceCalls ==
    [freq : FreqInputs, obs : ObsNames, obs_pos : ObsPositions,
     pixels : {NoneSeq, Some(<<0>>), Some(<<12>>)},
     theta : {NoneSeq, Some(<<0>>)}, phi : {NoneSeq, Some(<<1>>)},
     nside : {NoneInt, Some(1)}, lonlat : BOOLEAN, binned : BOOLEAN,
     return_comps : {FALSE}, coord_out : {"E"}]

\* calls that differ in the directions asked for
PixelCalls ==
    [freq : {[unit |-> "Hz", value |-> 3]}, obs : {"earth"}, obs_pos : ObsPositions,
     pixels : {Some(s) : s \in SeqsUpTo(PixelVals, MaxLen)},
     theta : {NoneSeq}, phi : {NoneSeq},
     nside : {Some(1)}, lonlat : {FALSE}, binned : BOOLEAN,
     return_comps : BOOLEAN, coord_out : CoordOuts]

AngleCalls ==
    {[freq |-> [unit |-> "Hz", value |-> 3], obs |-> "earth", obs_pos |-> op,
      pixels |-> NoneSeq,
      theta |-> Some([i \in DOMAIN d |-> d[i][1]]),
      phi |-> Some([i \in DOMAIN d |-> d[i][2]]),
      nside |-> Some(1), lonlat |-> ll, binned |-> b,
      return_comps |-> rc, coord_out |-> co] :
        op \in ObsPositions, d \in SeqsUpTo(AnglePairs, MaxLen),
        ll \in BOOLEAN, b \in BOOLEAN, rc \in BOOLEAN, co \in CoordOuts}

Calls == PresenceCalls \cup PixelCalls \cup AngleCalls

NoArgs ==
    [freq |-> [unit |-> "Hz", value |-> 0], obs |-> "", obs_pos |-> NonePos,
     pixels |-> NoneSeq, theta |-> NoneSeq, phi |-> NoneSeq, nside |-> NoneInt,
     lonlat |-> FALSE, binned |-> FALSE, return_comps |-> FALSE, coord_out |-> "E"]

\* ------------------------------------------------------------------- state
VARIABLES
    ephemeris,     \* solar_system_ephemeris: the ephemeris set process-wide
    inst,          \* per Zodipy instance: constructed, and with which ephemeris
    pc,            \* phase of the get_emission call in progress
    self,          \* the instance get_emission was called on
    args,          \* the arguments of the call
    error,         \* the error the call raised, "none" if none
    lookups,       \* the get_body lookups of the call, in order
    earth_pos,     \* earth_pos
    obs_pos,       \* obs_pos after lines 203-213
    freq,          \* freq in GHz after line 219
    spectral,      \* phase_coeffs and spectral_comp_parameters
    pix2vec_arg,   \* the pixels handed to hp.pix2vec, if it was called
    unique_pixels, \* unique_pixels (binned branch)
    counts,        \* counts (binned branch)
    indicies,      \* indicies (non-binned branch)
    unit_vectors,  \* unit_vectors
    emission,      \* emission, one row per component
    idx,           \* the component the integration loop is at
    result         \* the returned emission

vars == <<ephemeris, inst, pc, self, args, error, lookups, earth_pos, obs_pos,
          freq, spectral, pix2vec_arg, unique_pixels, counts, indicies,
          unit_vectors, emission, idx, result>>

\* the locals of a call
locals == <<lookups, earth_pos, obs_pos, freq, spectral, pix2vec_arg,
            unique_pixels, counts, indicies, unit_vectors, emission, idx, result>>

NoSpectral ==
    [phase_coeffs |-> 0,
     comps |-> [c \in Range(CompLabels) |-> [emissivity |-> 0, albedo |-> 0]]]
NoResult == [unit |-> "none", exp10 |-> 0, comps |-> FALSE, value |-> <<>>]

FreshLocals ==
    /\ lookups = <<>>
    /\ earth_pos = <<0, 0, 0>>
    /\ obs_pos = <<0, 0, 0>>
    /\ freq = 0
    /\ spectral = NoSpectral
    /\ pix2vec_arg = NoneSeq
    /\ unique_pixels = <<>>
    /\ counts = <<>>
    /\ indicies = <<>>
    /\ unit_vectors = <<>>
    /\ emission = <<>>
    /\ idx = 0
    /\ result = NoResult

Init ==
    /\ ephemeris = "builtin"
    /\ inst = [i \in Range(Instances) |-> [made |-> FALSE, ephemeris |-> "none"]]
    /\ pc = "idle"
    /\ self = "none"
    /\ args = NoArgs
    /\ error = "none"
    /\ FreshLocals

\* Zodipy.__init__(model, ephemeris); instances are named in the order they
\* are constructed
Construct(n, e) ==
    /\ pc = "idle"
    /\ ~inst[Instances[n]].made
    /\ \A m \in 1..(n - 1) : inst[Instances[m]].made
    /\ inst' = [inst EXCEPT ![Instances[n]] = [made |-> TRUE, ephemeris |-> e]]
    /\ ephemeris' = e
    /\ UNCHANGED <<pc, self, args, error, locals>>

\* a caller enters get_emission
Call(z, a) ==
    /\ pc = "idle"
    /\ inst[z].made
    /\ pc' = "validating"
    /\ self' = z
    /\ args' = a
    /\ UNCHANGED <<ephemeris, inst, error, locals>>

\* lines 153-196
ValidateInputs ==
    /\ pc = "validating"
    /\ error' = Validate(args, ephemeris)
    /\ pc' = IF Validate(args, ephemeris) = "none"
             THEN "resolving_positions" ELSE "failed"
    /\ UNCHANGED <<ephemeris, inst, self, args, locals>>

\* lines 200-217
ResolvePositions ==
    /\ pc = "resolving_positions"
    /\ earth_pos' = get_body("Earth", ephemeris)
    /\ IF args.obs_pos.some
       THEN /\ obs_pos' = args.obs_pos.v
            /\ lookups' = <<[body |-> "Earth", eph |-> ephemeris]>>
       ELSE IF lower(args.obs) = "semb-l2"
       THEN /\ obs_pos' = L2Position(get_body("Earth", ephemeris))
            /\ lookups' = <<[body |-> "Earth", eph |-> ephemeris]>>
       ELSE /\ obs_pos' = get_body(args.obs, ephemeris)
            /\ lookups' = <<[body |-> "Earth", eph |-> ephemeris],
                            [body |-> args.obs, eph |-> ephemeris]>>
    /\ pc' = "resolving_spectral"
    /\ UNCHANGED <<ephemeris, inst, self, args, error, freq, spectral,
                   pix2vec_arg, unique_pixels, counts, indicies, unit_vectors,
                   emission, idx, result>>

\* lines 219-233
ResolveSpectral ==
    /\ pc = "resolving_spectral"
    /\ freq' = to_GHz(args.freq)
    /\ LET ph == interp_phase_coeffs(to_GHz(args.freq))
           sp == interp_comp_spectral_params(to_GHz(args.freq))
       IN IF ph.err # "none"
          THEN /\ error' = ph.err
               /\ pc' = "failed"
               /\ UNCHANGED spectral
          ELSE IF sp.err # "none"
          THEN /\ error' = sp.err
               /\ pc' = "failed"
               /\ UNCHANGED spectral
          ELSE /\ spectral' = [phase_coeffs |-> ph.v, comps |-> sp.v]
               /\ pc' = "unit_vectors"
               /\ UNCHANGED error
    /\ UNCHANGED <<ephemeris, inst, self, args, lookups, earth_pos, obs_pos,
                   pix2vec_arg, unique_pixels, counts, indicies, unit_vectors,
                   emission, idx, result>>

\* lines 235-255 and 275-294, hp.pix2vec returning for every pixel it is given
ComputeUnitVectors ==
    /\ pc = "unit_vectors"
    /\ IF args.pixels.some
       THEN /\ pix2vec_arg' = Some(Unique(args.pixels.v))
            /\ unique_pixels' = Unique(args.pixels.v)
            /\ counts' = IF args.binned THEN UniqueCounts(args.pixels.v) ELSE <<>>
            /\ indicies' = IF args.binned THEN <<>> ELSE UniqueInverse(args.pixels.v)
            /\ unit_vectors' =
                 rotated_pix2vec(Unique(args.pixels.v), args.nside.v, args.coord_out)
            /\ emission' =
                 [c \in DOMAIN CompLabels |->
                    IF args.binned THEN Zeros(nside2npix(args.nside.v))
                    ELSE Zeros(Len(args.pixels.v))]
            /\ idx' = 1
            /\ pc' = "integrating"
            /\ UNCHANGED error
       ELSE IF args.theta.some /\ args.phi.some
       THEN LET cols == Columns(args.theta.v, args.phi.v)
                unique_angles == UniqueColumns(cols)
            IN /\ unique_pixels' =
                    IF args.binned
                    THEN angle_pixels(args.nside.v, unique_angles, args.lonlat)
                    ELSE <<>>
               /\ counts' = IF args.binned THEN UniqueColumnCounts(cols) ELSE <<>>
               /\ indicies' = IF args.binned THEN <<>> ELSE UniqueColumnInverse(cols)
               /\ unit_vectors' =
                    rotated_ang2vec(unique_angles, args.lonlat, args.coord_out)
               /\ emission' =
                    [c \in DOMAIN CompLabels |->
                       IF args.binned THEN Zeros(nside2npix(args.nside.v))
                       ELSE Zeros(Len(args.theta.v))]
               /\ idx' = 1
               /\ pc' = "integrating"
               /\ UNCHANGED <<error, pix2vec_arg>>
       ELSE \* np.unique(np.asarray([None, None]), axis=1)
            /\ error' = "AxisError"
            /\ pc' = "failed"
            /\ UNCHANGED <<pix2vec_arg, unique_pixels, counts, indicies,
                           unit_vectors, emission, idx>>
    /\ UNCHANGED <<ephemeris, inst, self, args, lookups, earth_pos, obs_pos,
                   freq, spectral, result>>

\* lines 237-242 and 277-282, hp.pix2vec raising on a pixel outside the map
Pix2VecRaises ==
    /\ pc = "unit_vectors"
    /\ args.pixels.some
    /\ \E p \in Range(args.pixels.v) : ~ValidPixel(p, args.nside.v)
    /\ pix2vec_arg' = Some(Unique(args.pixels.v))
    /\ error' = "HealpixError"
    /\ pc' = "failed"
    /\ UNCHANGED <<ephemeris, inst, self, args, lookups, earth_pos, obs_pos,
                   freq, spectral, unique_pixels, counts, indicies,
                   unit_vectors, emission, idx, result>>

\* trapezoidal(...) of the component at idx, per unique direction
Integrated(c) ==
    [j \in DOMAIN unit_vectors |->
        trapezoidal(freq, obs_pos, earth_pos, unit_vectors[j],
                    spectral.comps[CompLabels[c]].emissivity,
                    spectral.comps[CompLabels[c]].albedo,
                    spectral.phase_coeffs)]

\* one round of the loops of lines 256-271 and 296-313
IntegrateComponent ==
    /\ pc = "integrating"
    /\ idx <= Len(CompLabels)
    /\ IF args.binned /\ \E j \in DOMAIN unique_pixels :
                            ~InBounds(unique_pixels[j], nside2npix(args.nside.v))
       THEN /\ error' = "IndexError"
            /\ pc' = "failed"
            /\ UNCHANGED <<emission, idx>>
       ELSE /\ emission' =
                 [emission EXCEPT ![idx] =
                    IF args.binned THEN Scatter(@, unique_pixels, Integrated(idx))
                    ELSE Gather(Integrated(idx), indicies)]
            /\ idx' = idx + 1
            /\ pc' = IF idx = Len(CompLabels) THEN "aggregating" ELSE "integrating"
            /\ UNCHANGED error
    /\ UNCHANGED <<ephemeris, inst, self, args, lookups, earth_pos, obs_pos,
                   freq, spectral, pix2vec_arg, unique_pixels, counts, indicies,
                   unit_vectors, result>>

\* lines 273 and 315-318
Aggregate ==
    /\ pc = "aggregating"
    /\ emission' =
         IF args.binned
         THEN [c \in DOMAIN emission |->
                 ScaleByCounts(emission[c], unique_pixels, counts)]
         ELSE emission
    /\ result' = Returned(emission', args.return_comps)
    /\ pc' = "done"
    /\ UNCHANGED <<ephemeris, inst, self, args, error, lookups, earth_pos,
                   obs_pos, freq, spectral, pix2vec_arg, unique_pixels, counts,
                   indicies, unit_vectors, idx>>

\* the call returns or its error reaches the caller
Return ==
    /\ pc \in {"done", "failed"}
    /\ pc' = "idle"
    /\ self' = "none"
    /\ args' = NoArgs
    /\ error' = "none"
    /\ lookups' = <<>>
    /\ earth_pos' = <<0, 0, 0>>
    /\ obs_pos' = <<0, 0, 0>>
    /\ freq' = 0
    /\ spectral' = NoSpectral
    /\ pix2vec_arg' = NoneSeq
    /\ unique_pixels' = <<>>
    /\ counts' = <<>>
    /\ indicies' = <<>>
    /\ unit_vectors' = <<>>
    /\ emission' = <<>>
    /\ idx' = 0
    /\ result' = NoResult
    /\ UNCHANGED <<ephemeris, inst>>

Next ==
    \/ pc = "idle" /\ \E n \in DOMAIN Instances, e \in Ephemerides : Construct(n, e)
    \/ pc = "idle" /\ \E z \in Range(Instances), a \in Calls : Call(z, a)
    \/ ValidateInputs
    \/ ResolvePositions
    \/ ResolveSpectral
    \/ ComputeUnitVectors
    \/ Pix2VecRaises
    \/ IntegrateComponent
    \/ Aggregate
    \/ Return

Spec == Init /\ [][Next]_vars

\* ------------------------------------------------------------------ claims
InCall == pc # "idle"
Ended == pc \in {"done", "failed"}
Validated == pc \notin {"idle", "validating"}

\* the frequency in GHz steps that a frequency or wavelength stands for
FreqOf(q) ==
    IF q.unit = "Hz" THEN q.value
    ELSE CHOOSE f \in 0..SPEED_OF_LIGHT : f * q.value = SPEED_OF_LIGHT

Supported(name) ==
    \E b \in Bodies(ephemeris) \cup {"semb-l2"} : lower(name) = b

\* the arguments other than freq pass the checks of lines 153-196
OtherwiseValid ==
    /\ Supported(args.obs)
    /\ (args.pixels.some \/ args.binned) => args.nside.some
    /\ args.theta.some = args.phi.some
    /\ ~(args.pixels.some /\ args.theta.some)
    /\ args.pixels.some => ~args.lonlat

C2_InvalidPixelRejected ==
    (InCall /\ args.pixels.some /\ args.nside.some
       /\ \E p \in Range(args.pixels.v) : ~ValidPixel(p, args.nside.v))
    => /\ ~pix2vec_arg.some
       /\ unique_pixels = <<>>
       /\ pc # "done"
       /\ (Ended /\ OtherwiseValid /\ InSpectrum(FreqOf(args.freq)))
             => error = "InvalidPixel"

\* C3: with a supported observer, a call without nside that gives pixels or
\* asks for a binned map fails at once with the error that names the
\* missing nside, whatever its other arguments.
C3_MissingNside ==
    (Validated /\ Supported(args.obs) /\ ~args.nside.some
       /\ (args.pixels.some \/ args.binned))
    => /\ pc = "failed"
       /\ error \in {"MissingNsideForPixels", "MissingNsideForBinned"}
       /\ error \in InvalidInputErrors
       /\ lookups = <<>>

C3_Witness ==
    /\ pc = "failed"
    /\ error = "MissingNsideForBinned"
    /\ args.theta.some
    /\ ~args.phi.some

C5_PixelsOrAngles ==
    (Validated /\ Supported(args.obs)
       /\ \/ args.pixels.some /\ args.nside.some /\ (args.theta.some \/ args.phi.some)
          \/ args.theta.some # args.phi.some)
    => /\ pc = "failed"
       /\ error \in InvalidInputErrors
       /\ result = NoResult

C5_Witness ==
    /\ pc = "failed"
    /\ error = "PixelsAndAngles"
    /\ args.pixels.some /\ args.theta.some /\ args.phi.some

\* the directions of the call, in the caller's order
NumInputs == IF args.pixels.some THEN Len(args.pixels.v) ELSE Len(args.theta.v)

\* the unit vector, in ecliptic coordinates, of the i-th direction asked for
InputVec(i) ==
    IF args.pixels.some
    THEN RotateToEcliptic(pix2vec(args.nside.v, args.pixels.v[i]), args.coord_out)
    ELSE RotateToEcliptic(ang2vec(args.theta.v[i], args.phi.v[i], args.lonlat),
                          args.coord_out)

\* the pixel the i-th direction asked for falls in
InputPix(i) ==
    IF args.pixels.some THEN args.pixels.v[i]
    ELSE ang2pix(args.nside.v, args.theta.v[i], args.phi.v[i], args.lonlat)

\* the i-th and the k-th direction asked for are the same direction
SameDirection(i, k) ==
    IF args.pixels.some THEN args.pixels.v[i] = args.pixels.v[k]
    ELSE args.theta.v[i] = args.theta.v[k] /\ args.phi.v[i] = args.phi.v[k]

Occurrences(i) == Cardinality({k \in 1..NumInputs : SameDirection(i, k)})

\* what the integrator yields for component c along the i-th direction
DirectionValue(c, i) ==
    trapezoidal(freq, obs_pos, earth_pos, InputVec(i),
                spectral.comps[CompLabels[c]].emissivity,
                spectral.comps[CompLabels[c]].albedo,
                spectral.phase_coeffs)

RECURSIVE TotalValue(_, _)
\* the sum over the components from c on along the i-th direction
TotalValue(c, i) ==
    IF c > Len(CompLabels) THEN 0 ELSE DirectionValue(c, i) + TotalValue(c + 1, i)

\* C6: a non-binned call returns, per component, one entry per direction
\* asked for, in the caller's order, and the entry of the i-th direction is
\* what the integrator yielded for that direction; the entries of a repeated
\* direction are equal.
C6_NonBinnedOrder ==
    (pc = "done" /\ ~args.binned) =>
       /\ \A c \in DOMAIN CompLabels :
            /\ DOMAIN emission[c] = 0..(NumInputs - 1)
            /\ \A i \in 1..NumInputs :
                 /\ emission[c][i - 1] = DirectionValue(c, i)
                 /\ \A k \in 1..NumInputs :
                      SameDirection(i, k) => emission[c][k - 1] = emission[c][i - 1]
       /\ result.unit = "MJy/sr"
       /\ IF args.return_comps
          THEN \A c \in DOMAIN CompLabels : \A i \in 1..NumInputs :
                   result.value[c][i - 1] = DirectionValue(c, i)
          ELSE /\ DOMAIN result.value = 0..(NumInputs - 1)
               /\ \A i \in 1..NumInputs : result.value[i - 1] = TotalValue(1, i)

C6_Witness ==
    /\ pc = "done"
    /\ ~args.binned
    /\ NumInputs = 2
    /\ \/ args.pixels.some /\ args.pixels.v[1] > args.pixels.v[2]
       \/ args.theta.some /\ SameDirection(1, 2)

\* the directions asked for are distinct and fall in distinct pixels of the map
DistinctPixels ==
    /\ \A i \in 1..NumInputs : ValidPixel(InputPix(i), args.nside.v)
    /\ \A i, k \in 1..NumInputs : i # k => InputPix(i) # InputPix(k)

\* C7: for directions that do not repeat and fall in distinct pixels, the
\* binned map holds at the pixel of each direction the value the non-binned
\* call with the same arguments returns for that direction.
C7_BinnedMatchesNonBinned ==
    (pc = "done" /\ args.binned /\ DistinctPixels) =>
       \A i \in 1..NumInputs :
          /\ \A c \in DOMAIN CompLabels :
               emission[c][InputPix(i)]
                  = Gather(Integrated(c), IF args.pixels.some
                                          THEN UniqueInverse(args.pixels.v)
                                          ELSE UniqueColumnInverse(
                                                 Columns(args.theta.v, args.phi.v)))[i - 1]
          /\ \A c \in DOMAIN CompLabels :
               emission[c][InputPix(i)] = DirectionValue(c, i)
          /\ ~args.return_comps => result.value[InputPix(i)] = TotalValue(1, i)

C7_Witness ==
    /\ pc = "done"
    /\ args.binned
    /\ DistinctPixels
    /\ args.theta.some
    /\ NumInputs = 2

\* C8: a binned call returns, per component, a map of nside2npix(nside)
\* entries; for every direction asked for, the map holds at the pixel the
\* direction falls in the integrated emission of the direction times the
\* number of times it was asked for; every other pixel holds 0.
C8_BinnedCounts ==
    (pc = "done" /\ args.binned) =>
       \A c \in DOMAIN CompLabels :
          /\ DOMAIN emission[c] = 0..(nside2npix(args.nside.v) - 1)
          /\ \A i \in 1..NumInputs :
               ValidPixel(InputPix(i), args.nside.v) =>
                  emission[c][InputPix(i)] = DirectionValue(c, i) * Occurrences(i)
          /\ \A p \in DOMAIN emission[c] :
               (\A i \in 1..NumInputs : InputPix(i) # p) => emission[c][p] = 0

\* C9: with obs_pos given, the outcome of the call is the same for every
\* obs: the call does not fail for its observer name, the name is not looked
\* up, and the integrator works from obs_pos.
C9_ObsPosOverridesObs ==
    (InCall /\ args.obs_pos.some) =>
       /\ error # "UnsupportedObserver"
       /\ \A k \in DOMAIN lookups : lower(lookups[k].body) = "earth"
       /\ pc \in {"unit_vectors", "integrating", "aggregating", "done"}
             => obs_pos = args.obs_pos.v

\* the errors of the checks on the inputs
ValidationErrors ==
    InvalidInputErrors \cup {"UnsupportedObserver", "OutOfSpectralRange"}

\* C10: a call that ends in a validation error (unsupported observer,
\* missing nside, pixels with angles, theta without phi, frequency out of
\* the model's range) ended while validating its inputs: no ephemeris
\* lookup, spectral interpolation, unit vector or integration has happened,
\* and a call whose frequency is out of range gets no further.
C10_ValidationFirst ==
    /\ (pc = "failed" /\ error \in ValidationErrors) =>
          /\ lookups = <<>>
          /\ freq = 0
          /\ spectral = NoSpectral
          /\ unit_vectors = <<>>
          /\ idx = 0
    /\ (InCall /\ ~InSpectrum(FreqOf(args.freq))) =>
          pc \in {"validating", "failed"}

\* the phases of a call in their order
Rank(p) ==
    CASE p = "idle" -> 0
      [] p = "validating" -> 1
      [] p = "resolving_positions" -> 2
      [] p = "resolving_spectral" -> 3
      [] p = "unit_vectors" -> 4
      [] p = "integrating" -> 5
      [] p = "aggregating" -> 6
      [] OTHER -> 7

\* a call moves from a phase to the next one (the integration loop stays in
\* its phase), or fails, and goes back to idle only once it has ended
PhaseOrder ==
    [][\/ pc' = "idle" /\ pc \in {"idle", "done", "failed"}
       \/ pc' = "failed" /\ pc \notin {"idle", "done"}
       \/ /\ pc' \notin {"idle", "failed"}
          /\ \/ Rank(pc') = Rank(pc) + 1
             \/ pc = "integrating" /\ pc' = "integrating"]_vars

\* C11: a call that gives neither pixels nor theta and phi, binned or not,
\* is refused with an invalid-input error while its inputs are validated:
\* once validation is over it has failed with that error, and no ephemeris
\* lookup, spectral interpolation or integration has happened.  (Stated for
\* calls with a supported observer and a frequency in the model's range,
\* whose only fault is the missing direction.)
C11_NoDirectionRejected ==
    (Validated /\ Supported(args.obs) /\ InSpectrum(FreqOf(args.freq))
       /\ ~args.pixels.some /\ ~args.theta.some /\ ~args.phi.some)
    => /\ pc = "failed"
       /\ error \in InvalidInputErrors
       /\ lookups = <<>>
       /\ freq = 0
       /\ spectral = NoSpectral
       /\ idx = 0

\* the observers of the ephemeris an instance was constructed with
OwnObservers(z) == Bodies(inst[z].ephemeris) \cup {"semb-l2"}

\* C12: whatever instances were constructed in between, a call on an
\* instance works from the ephemeris that instance was constructed with:
\* its observer is refused exactly when it is not an observer of that
\* ephemeris, and Earth's and the observer's positions are looked up in it.
C12_InstanceEphemeris ==
    InCall =>
       /\ Validated =>
            (error = "UnsupportedObserver" <=> lower(args.obs) \notin OwnObservers(self))
       /\ \A k \in DOMAIN lookups : lookups[k].eph = inst[self].ephemeris
       /\ lookups # <<>> => earth_pos = get_body("Earth", inst[self].ephemeris)

====
